---- MODULE Spec2Model ----
(***************************************************************************)
(* A model of the speech coach application: the response parser and the    *)
(* conversation context of GeminiAPI (js/gemini-api.js), the session store *)
(* of SpeechAnalytics (js/analytics.js) and the supervisor of js/app.js.   *)
(*                                                                         *)
(* Texts are sequences of tokens.  A transcript is a sequence of the       *)
(* characters " " and "a".  A response text is a sequence over prose       *)
(* ("x"), the braces, the comma and member tokens, each member token       *)
(* standing for one `"key": value` pair of a JSON object.                  *)
(***************************************************************************)
EXTENDS Integers, Sequences, FiniteSets, TLC

(***************************************************************************)
(* JSON values and the member tokens of the response alphabet.             *)
(***************************************************************************)
Num(n) == [t |-> "num", n |-> n, s |-> "", a |-> <<>>]
Str(s) == [t |-> "str", n |-> 0, s |-> s, a |-> <<>>]
Arr(a) == [t |-> "arr", n |-> 0, s |-> "", a |-> a]
Undefined == [t |-> "undefined", n |-> 0, s |-> "", a |-> <<>>]

\* The members a response may carry, and those of the fallback literal.
ResponseMembers == {"sc8", "sc0", "sc11", "scS", "st1", "im1", "im0", "imS", "to1"}
FallbackMembers == {"sc7", "stF", "imF", "toF", "suF"}
MemberTokens == ResponseMembers \cup FallbackMembers

MemberKey(m) ==
    CASE m \in {"sc8", "sc0", "sc11", "scS", "sc7"} -> "overallScore"
      [] m \in {"st1", "stF"} -> "strengths"
      [] m \in {"im1", "im0", "imS", "imF"} -> "improvements"
      [] m \in {"to1", "toF"} -> "toneFeedback"
      [] m = "suF" -> "suggestion"

MemberValue(m) ==
    CASE m = "sc8" -> Num(8)
      [] m = "sc0" -> Num(0)
      [] m = "sc11" -> Num(11)
      [] m = "scS" -> Str("high")
      [] m = "sc7" -> Num(7)
      [] m = "st1" -> Arr(<<"s">>)
      [] m = "stF" -> Arr(<<"Clear communication detected">>)
      [] m = "im1" -> Arr(<<"x">>)
      [] m = "im0" -> Arr(<<>>)
      [] m = "imS" -> Str("x")
      [] m = "imF" -> Arr(<<"Consider structuring responses in a more organized way">>)
      [] m = "to1" -> Str("Calm")
      [] m = "toF" -> Str("Professional and engaged")
      [] m = "suF" -> Str("Practice with more specific examples")

(***************************************************************************)
(* Objects.  A decoded object is the sequence of its members in key        *)
(* insertion order, with pairwise distinct keys.                           *)
(***************************************************************************)
HasKey(obj, k) == \E i \in 1..Len(obj) : MemberKey(obj[i]) = k

\* obj.k : the value of the member with key k, undefined when absent
Get(obj, k) ==
    IF HasKey(obj, k)
    THEN MemberValue(obj[CHOOSE i \in 1..Len(obj) : MemberKey(obj[i]) = k])
    ELSE Undefined

\* JavaScript truthiness, as the `!x` tests of the validation use it
Truthy(v) ==
    CASE v.t = "num" -> v.n # 0
      [] v.t = "str" -> v.s # ""
      [] v.t = "arr" -> TRUE
      [] OTHER -> FALSE

\* Setting key of member m in obj: a later duplicate replaces the value in place
PutMember(obj, m) ==
    IF HasKey(obj, MemberKey(m))
    THEN [i \in 1..Len(obj) |->
             IF MemberKey(obj[i]) = MemberKey(m) THEN m ELSE obj[i]]
    ELSE Append(obj, m)

(***************************************************************************)
(* The response parser of GeminiAPI._processResponse.                      *)
(***************************************************************************)
Positions(text, tok) == {i \in 1..Len(text) : text[i] = tok}
Min(S) == CHOOSE x \in S : \A y \in S : x <= y
Max(S) == CHOOSE x \in S : \A y \in S : x >= y

\* textContent.match(/\{[\s\S]*\}/): the leftmost match, taken greedily, runs
\* from the first "{" to the last "}" of the text; null when no "}" follows a "{".
HasJsonMatch(text) ==
    /\ Positions(text, "{") # {}
    /\ Positions(text, "}") # {}
    /\ Min(Positions(text, "{")) < Max(Positions(text, "}"))

JsonMatch(text) ==
    SubSeq(text, Min(Positions(text, "{")), Max(Positions(text, "}")))

\* What lies between the outer braces of a span
Inner(span) == SubSeq(span, 2, Len(span) - 1)

\* JSON.parse accepts the span when members and commas alternate inside the braces
JsonDecodable(span) ==
    LET inner == Inner(span) IN
      \/ Len(inner) = 0
      \/ /\ Len(inner) % 2 = 1
         /\ \A i \in 1..Len(inner) :
               IF i % 2 = 1 THEN inner[i] \in MemberTokens ELSE inner[i] = ","

RECURSIVE DecodeMembers(_, _)
DecodeMembers(inner, obj) ==
    IF Len(inner) = 0 THEN obj
    ELSE DecodeMembers(SubSeq(inner, 3, Len(inner)), PutMember(obj, inner[1]))

\* JSON.parse(span) of a decodable span
JsonParse(span) == DecodeMembers(Inner(span), <<>>)

RECURSIVE JoinMembers(_)
JoinMembers(obj) ==
    IF Len(obj) = 0 THEN <<>>
    ELSE IF Len(obj) = 1 THEN <<obj[1]>>
    ELSE <<obj[1], ",">> \o JoinMembers(Tail(obj))

\* JSON.stringify(analysis)
JsonStringify(obj) == <<"{">> \o JoinMembers(obj) \o <<"}">>

\* A required-field test that looks at the score alone
ValidateScoreOnly(analysis) == Truthy(Get(analysis, "overallScore"))

\* The required-field test of the decoded analysis:
\* !analysis.overallScore || !analysis.strengths || !analysis.improvements
Validate(analysis) ==
    /\ Truthy(Get(analysis, "overallScore"))
    /\ Truthy(Get(analysis, "strengths"))
    /\ Truthy(Get(analysis, "improvements"))

FallbackAnalysis == <<"sc7", "stF", "imF", "toF", "suF">>

\* response?.candidates?.[0]?.content?.parts?.[0]?.text is falsy
NoTextContent(response) == ~response.hasText \/ Len(response.text) = 0

\* _processResponse without its inner catch: a span that does not decode or
\* lacks a required field raises
ProcessResponseRethrows(resp) ==
    IF NoTextContent(resp)
    THEN [path |-> "raise", analysis |-> <<>>]
    ELSE IF ~HasJsonMatch(resp.text)
         THEN [path |-> "fallback", analysis |-> FallbackAnalysis]
         ELSE IF /\ JsonDecodable(JsonMatch(resp.text))
                 /\ Validate(JsonParse(JsonMatch(resp.text)))
              THEN [path |-> "decoded", analysis |-> JsonParse(JsonMatch(resp.text))]
              ELSE [path |-> "raise", analysis |-> <<>>]

\* The outcome of _processResponse: the path taken and the analysis returned
ProcessResponse(resp) ==
    IF NoTextContent(resp)
    THEN [path |-> "raise", analysis |-> <<>>]
    ELSE IF /\ HasJsonMatch(resp.text)
            /\ JsonDecodable(JsonMatch(resp.text))
            /\ Validate(JsonParse(JsonMatch(resp.text)))
         THEN [path |-> "decoded", analysis |-> JsonParse(JsonMatch(resp.text))]
         ELSE [path |-> "fallback", analysis |-> FallbackAnalysis]

(***************************************************************************)
(* Bounds of the model and constants of the program.                       *)
(***************************************************************************)
ContextCapacity == 10      \* contextHistory keeps the last 10 entries
HistoryCapacity == 20      \* history keeps the first 20 records
SaveThreshold == 5         \* a final update saves when duration > 5
AnalyzeThreshold == 10     \* a final update analyses when duration > 10

MaxMembers == 3            \* members of an enumerated response object
MaxEvents == 5             \* user events of a run of Spec
MaxLiveEvents == 4         \* user events of a run of SpecLive
MaxInFlight == 2           \* analyzeTranscript calls awaiting the collaborator
MaxCtxEvents == 8          \* user events of a run of SpecCtx
MaxStoreEvents == 7        \* user events of a run of SpecStore
MaxVoiceEvents == 7        \* user events of a run of SpecVoice
MaxSaves == 25             \* successive saves of a run of SpecSaves
MaxKeyEvents == 4          \* user events of a run of SpecKey

(***************************************************************************)
(* The state.                                                              *)
(***************************************************************************)
VARIABLES
    activeScenario,    \* app.js: the scenario of the next request
    isRecording,       \* app.js: the microphone is on
    pendingAnalysis,   \* app.js: the in-flight flag of analyzeWithGemini
    isApiKeySet,       \* GeminiAPI: a credential is configured
    apiKey,            \* GeminiAPI: the credential sent with a request
    storedKey,         \* localStorage['geminiApiKey']
    contextHistory,    \* GeminiAPI: the conversation context
    history,           \* SpeechAnalytics: the session history, newest first
    historyIsArray,    \* SpeechAnalytics: this.history is an array
    currentSession,    \* SpeechAnalytics: the session being recorded
    storage,           \* localStorage['speechCoachHistory']
    recTranscript,     \* the recogniser's transcript, speechRecognition.getTranscript()
    recDuration,       \* the recogniser's accumulated duration, in seconds
    inflight,          \* the analyzeTranscript calls awaiting the collaborator
    now,               \* the clock, Date.now()
    response,          \* the response last handed to _processResponse
    result,            \* what _processResponse made of it, or the failure of the request
    appended,          \* the entries appended to the context since it was last cleared
    nEvents            \* the user events so far

appVars == <<activeScenario, isRecording, pendingAnalysis>>
keyVars == <<isApiKeySet, apiKey, storedKey>>
geminiVars == <<keyVars, contextHistory, appended>>
storeVars == <<history, historyIsArray, storage>>
recVars == <<recTranscript, recDuration>>
parseVars == <<response, result>>
vars == <<activeScenario, isRecording, pendingAnalysis, isApiKeySet, apiKey, storedKey,
          contextHistory,
          history, historyIsArray, currentSession, storage, recTranscript,
          recDuration, inflight, now, response, result, appended, nEvents>>

(***************************************************************************)
(* Texts typed or spoken.                                                  *)
(***************************************************************************)
\* transcript.trim().length === 0
IsBlank(text) == \A i \in 1..Len(text) : text[i] = " "

\* text.trim()
Trim(text) ==
    IF IsBlank(text) THEN <<>>
    ELSE LET solid == {i \in 1..Len(text) : text[i] # " "}
         IN  SubSeq(text, Min(solid), Max(solid))

Scenarios == {"general", "interview"}
Spoken == {<<"a">>, <<" ">>}
Typed == {<<"a", " ">>, <<" ">>}
Durations == {5, 10, 11}
WriteOutcomes == {TRUE}

(***************************************************************************)
(* Values of the analytics module.                                         *)
(***************************************************************************)
NoMetrics == [has |-> FALSE, duration |-> 0]             \* metrics: {}
Metrics(d) == [has |-> TRUE, duration |-> d]
NullAnalysis == [isNull |-> TRUE, obj |-> <<>>]          \* analysis: null
Analysis(obj) == [isNull |-> FALSE, obj |-> obj]
AbsentStorage == [kind |-> "absent", records |-> <<>>]   \* getItem returns null

\* the currentSession literal of the constructor
ConstructedSession ==
    [startTime |-> -1, metrics |-> NoMetrics, transcript |-> <<>>,
     analysis |-> NullAnalysis]

\* startSession that carries the analysis of the session before over
StartSessionKeepsAnalysis(transcript, t) ==
    [startTime |-> t, metrics |-> NoMetrics, transcript |-> transcript,
     analysis |-> currentSession.analysis]

\* startSession(transcript = '')
StartSession(transcript, t) ==
    [startTime |-> t, metrics |-> NoMetrics, transcript |-> transcript,
     analysis |-> NullAnalysis]

\* updateTranscript(transcript)
UpdateTranscript(session, transcript) == [session EXCEPT !.transcript = transcript]

\* the session object built by _saveSession
SessionRecord(session, t) ==
    [id |-> t, date |-> t,
     duration |-> IF session.metrics.has THEN session.metrics.duration ELSE 0,
     transcript |-> session.transcript,
     metrics |-> session.metrics,
     analysis |-> session.analysis]

\* history.unshift(session) without the slice
UnshiftNoSlice(hist, rec) == <<rec>> \o hist

\* history.unshift(session), then slice(0, 20) when longer than 20
Unshift(hist, rec) ==
    IF Len(<<rec>> \o hist) > HistoryCapacity
    THEN SubSeq(<<rec>> \o hist, 1, HistoryCapacity)
    ELSE <<rec>> \o hist

\* _saveSession returns before saving
SaveSkipped(session) == IsBlank(session.transcript)

\* _saveSession throws: unshift is no method of a history that is not an array
SaveThrows(session) == ~SaveSkipped(session) /\ ~historyIsArray

\* _saveSession that writes the record over the head of the history
SavedHistoryOverHead(session) ==
    IF SaveSkipped(session) \/ ~historyIsArray THEN history
    ELSE IF history = <<>> THEN <<SessionRecord(session, now)>>
    ELSE [history EXCEPT ![1] = SessionRecord(session, now)]

\* The history after _saveSession
SavedHistory(session) ==
    IF SaveSkipped(session) \/ ~historyIsArray THEN history
    ELSE Unshift(history, SessionRecord(session, now))

\* JSON.stringify of a record's metrics and analysis: {} for no metrics, null
\* for no analysis
StringifyMetrics(metrics) ==
    IF metrics.has THEN <<"{", metrics.duration, "}">> ELSE <<"{", "}">>
StringifyAnalysis(analysis) ==
    IF analysis.isNull THEN <<"null">> ELSE JsonStringify(analysis.obj)

\* JSON.stringify(this.history): the blob, record by record in the same order
StringifyRecord(rec) ==
    [id |-> rec.id, date |-> rec.date, duration |-> rec.duration,
     transcript |-> rec.transcript,
     metrics |-> StringifyMetrics(rec.metrics),
     analysis |-> StringifyAnalysis(rec.analysis)]
StringifyHistory(hist) == [i \in 1..Len(hist) |-> StringifyRecord(hist[i])]

\* JSON.parse of the blob
ParseMetrics(text) == IF Len(text) = 3 THEN Metrics(text[2]) ELSE NoMetrics
ParseAnalysis(text) ==
    IF text = <<"null">> THEN NullAnalysis ELSE Analysis(JsonParse(text))
ParseRecord(enc) ==
    [id |-> enc.id, date |-> enc.date, duration |-> enc.duration,
     transcript |-> enc.transcript,
     metrics |-> ParseMetrics(enc.metrics),
     analysis |-> ParseAnalysis(enc.analysis)]
ParseHistory(records) == [i \in 1..Len(records) |-> ParseRecord(records[i])]

\* A save that writes the blob before the new record joins the history
SavedStorageBeforeUnshift(session, writeOk) ==
    IF SaveSkipped(session) \/ ~historyIsArray \/ ~writeOk THEN storage
    ELSE [kind |-> "history", records |-> StringifyHistory(history)]

\* The blob after _saveSession; writeOk: localStorage.setItem did not throw
SavedStorage(session, writeOk) ==
    IF SaveSkipped(session) \/ ~historyIsArray \/ ~writeOk THEN storage
    ELSE [kind |-> "history", records |-> StringifyHistory(SavedHistory(session))]

\* The persisted blob decoded by _loadHistoryFromStorage: the history it leaves
LoadedHistory(blob) ==
    IF blob.kind = "history" THEN ParseHistory(blob.records) ELSE <<>>

\* ... and whether that history is an array: JSON.parse of a blob that is no
\* sequence (null, a number, an object) is assigned before the display fails
LoadedIsArray(blob) == blob.kind # "nonarray"

(***************************************************************************)
(* The conversation context of GeminiAPI.                                  *)
(***************************************************************************)
Entry(role, content) == [role |-> role, content |-> content]

\* addToHistory with slice(0, 10) for slice(-10)
AddToHistoryKeepOldest(ctx, role, content) ==
    IF Len(ctx) + 1 > ContextCapacity
    THEN SubSeq(Append(ctx, Entry(role, content)), 1, ContextCapacity)
    ELSE Append(ctx, Entry(role, content))

\* addToHistory with unshift for push: the entry goes to the front
AddToHistoryAtFront(ctx, role, content) ==
    IF Len(ctx) + 1 > ContextCapacity
    THEN SubSeq(<<Entry(role, content)>> \o ctx, 2, ContextCapacity + 1)
    ELSE <<Entry(role, content)>> \o ctx

\* addToHistory(role, content): push, then slice(-10) when longer than 10
AddToHistory(ctx, role, content) ==
    IF Len(Append(ctx, Entry(role, content))) > ContextCapacity
    THEN SubSeq(Append(ctx, Entry(role, content)),
                Len(ctx) + 2 - ContextCapacity, Len(ctx) + 1)
    ELSE Append(ctx, Entry(role, content))

\* _createContext(scenario): contexts[scenario] || contexts.general
CreateContext(scenario) ==
    IF scenario \in {"interview", "social", "public", "general"} THEN scenario
    ELSE "general"

\* A call of analyzeTranscript awaiting the collaborator: the prompt's variable
\* parts and the key, which are sent, and with them who called and the
\* contextHistory the call found, which are not
Request(caller, transcript, metrics, scenario) ==
    [caller |-> caller, transcript |-> transcript, metrics |-> metrics,
     context |-> CreateContext(scenario), key |-> apiKey, seen |-> contextHistory']

\* What fetch is given: the endpoint's key and the prompt built from the
\* transcript, the metrics and the scenario's context sentence
Payload(req) ==
    [transcript |-> req.transcript, metrics |-> req.metrics, context |-> req.context,
     key |-> req.key]

\* The credential: the constructor's default key and flag
DefaultKey == <<"d">>
NoStoredKey == [present |-> FALSE, key |-> <<>>]         \* getItem returns null

\* A client constructed without a credential
ConstructedKeyUnset == FALSE

\* isApiKeySet as the constructor leaves it: true, for the default key
ConstructedKeySet == TRUE

\* setApiKey without the trim: a whitespace-only key is accepted
KeyAcceptedUntrimmed(key) == Len(key) > 0

\* setApiKey(key) accepts the key
KeyAccepted(key) == Len(key) > 0 /\ ~IsBlank(key)

\* apiKey after the constructor and loadApiKey() at page load: a stored key
\* that setApiKey accepts replaces the default key
LoadedApiKey(stored) ==
    IF stored.present /\ KeyAccepted(stored.key) THEN stored.key ELSE DefaultKey

\* analyzeTranscript rejects before any request is made
Rejected(transcript) == ~isApiKeySet \/ IsBlank(transcript)

\* The metrics respondToMessage makes up for a typed message:
\* duration = Math.ceil(message.split(' ').length / 2.5)
TypedMetrics(message) ==
    Metrics((2 * (Cardinality(Positions(message, " ")) + 1) + 4) \div 5)

\* The call stays with the collaborator: it is sent again
RemoveRetried(seq, i) == seq

Remove(seq, i) == SubSeq(seq, 1, i - 1) \o SubSeq(seq, i + 1, Len(seq))

(***************************************************************************)
(* Result handling.                                                        *)
(***************************************************************************)
\* x && x.length > 0 holds of a value that has no forEach / map: a non-empty string
IteratedString(v) == v.t = "str" /\ v.s # ""

\* _updateSuggestionsPanel throws
UpdateSuggestionsThrows(analysis) ==
    \/ IteratedString(Get(analysis, "corrections"))
    \/ IteratedString(Get(analysis, "improvements"))

\* showResponse throws
ShowResponseThrows(analysis) ==
    \/ IteratedString(Get(analysis, "strengths"))
    \/ IteratedString(Get(analysis, "improvements"))

(***************************************************************************)
(* The supervisor of app.js.                                               *)
(***************************************************************************)
\* A call may be added to those in flight
Room == Len(inflight) < MaxInFlight

\* A catch that leaves the flag as it finds it
FlagLeftSet(flag) == flag

\* The flag after the catch of analyzeWithGemini: pendingAnalysis = false
FlagAfterFailure(flag) == FALSE

\* analyzeWithGemini without its test of the transcript: the blank transcript
\* joins the context and analyzeTranscript throws 'Transcript is empty'
AnalyzeWithGeminiUnchecked(transcript, metrics) ==
    /\ contextHistory' = AddToHistory(contextHistory, "user", transcript)
    /\ appended' = Append(appended, Entry("user", transcript))
    /\ IF Rejected(transcript)
       THEN /\ pendingAnalysis' = FlagAfterFailure(TRUE)
            /\ UNCHANGED inflight
       ELSE /\ Room
            /\ pendingAnalysis' = TRUE
            /\ inflight' = Append(inflight,
                   Request("voice", transcript, metrics, activeScenario))

\* analyzeWithGemini(transcript, metrics), up to its await
AnalyzeWithGemini(transcript, metrics) ==
    IF IsBlank(transcript)
    THEN UNCHANGED <<pendingAnalysis, contextHistory, appended, inflight>>
    ELSE /\ contextHistory' = AddToHistory(contextHistory, "user", transcript)
         /\ appended' = Append(appended, Entry("user", transcript))
         /\ IF Rejected(transcript)
            THEN /\ pendingAnalysis' = FlagAfterFailure(TRUE)
                 /\ UNCHANGED inflight
            ELSE /\ Room
                 /\ pendingAnalysis' = TRUE
                 /\ inflight' = Append(inflight,
                        Request("voice", transcript, metrics, activeScenario))

\* The analytics callback without the test of pendingAnalysis
AnalyticsUpdateUnguarded(session, metrics, isFinal, writeOk) ==
    LET updated == [session EXCEPT !.metrics = metrics]
        saves == isFinal /\ metrics.duration > SaveThreshold
        threw == saves /\ SaveThrows(updated)
    IN  /\ currentSession' = updated
        /\ history' = IF saves THEN SavedHistory(updated) ELSE history
        /\ storage' = IF saves THEN SavedStorage(updated, writeOk) ELSE storage
        /\ UNCHANGED historyIsArray
        /\ IF ~threw /\ isFinal /\ metrics.duration > AnalyzeThreshold
           THEN AnalyzeWithGemini(recTranscript, metrics)
           ELSE UNCHANGED <<pendingAnalysis, contextHistory, appended, inflight>>

\* The analytics callback of initSpeechRecognition, run on the session `session`:
\* updateMetrics, then the decision to analyse
AnalyticsUpdate(session, metrics, isFinal, writeOk) ==
    LET updated == [session EXCEPT !.metrics = metrics]
        saves == isFinal /\ metrics.duration > SaveThreshold
        threw == saves /\ SaveThrows(updated)
    IN  /\ currentSession' = updated
        /\ history' = IF saves THEN SavedHistory(updated) ELSE history
        /\ storage' = IF saves THEN SavedStorage(updated, writeOk) ELSE storage
        /\ UNCHANGED historyIsArray
        /\ IF ~threw /\ isFinal /\ metrics.duration > AnalyzeThreshold /\ ~pendingAnalysis
           THEN AnalyzeWithGemini(recTranscript, metrics)
           ELSE UNCHANGED <<pendingAnalysis, contextHistory, appended, inflight>>

\* toggleRecording, not recording: start the recogniser and a new session
StartRecording ==
    /\ ~isRecording
    /\ isRecording' = TRUE
    /\ recTranscript' = <<>>
    /\ recDuration' = 0
    /\ currentSession' = StartSession(<<>>, now)
    /\ UNCHANGED <<activeScenario, pendingAnalysis, geminiVars, storeVars, inflight,
                   now, parseVars>>

\* toggleRecording, recording: stop the recogniser, which delivers the final
\* analytics after d seconds of speech
StopRecording(d, writeOk) ==
    /\ isRecording
    /\ d >= recDuration
    /\ isRecording' = FALSE
    /\ recDuration' = d
    /\ AnalyticsUpdate(currentSession, Metrics(d), TRUE, writeOk)
    /\ UNCHANGED <<activeScenario, keyVars, recTranscript, now, parseVars>>

\* A final transcript event of the recogniser while recording: the text joins the
\* transcript of the recogniser and of the session, and the analytics are updated
TranscriptEvent(text, d) ==
    /\ isRecording
    /\ d >= recDuration
    /\ recTranscript' = recTranscript \o text
    /\ recDuration' = d
    /\ AnalyticsUpdate(UpdateTranscript(currentSession, recTranscript \o text),
                       Metrics(d), FALSE, TRUE)
    /\ UNCHANGED <<activeScenario, isRecording, keyVars, now, parseVars>>

\* A click on a scenario button
SelectScenario(scenario) ==
    /\ activeScenario' = scenario
    /\ contextHistory' = <<>>
    /\ appended' = <<>>
    /\ UNCHANGED <<isRecording, pendingAnalysis, keyVars, storeVars, currentSession,
                   recVars, inflight, now, parseVars>>

\* sendUserMessage(text) and respondToMessage(text), up to its await
SendUserMessage(text) ==
    /\ Rejected(text) \/ Room
    /\ contextHistory' = AddToHistory(contextHistory, "user", text)
    /\ appended' = Append(appended, Entry("user", text))
    /\ inflight' = IF Rejected(text) THEN inflight
                   ELSE Append(inflight,
                            Request("typed", text, TypedMetrics(text), activeScenario))

\* The send button or the Enter key, with `raw` in the input field
UserInput(raw) ==
    /\ IF Len(Trim(raw)) > 0
       THEN SendUserMessage(Trim(raw))
       ELSE UNCHANGED <<contextHistory, appended, inflight>>
    /\ UNCHANGED <<appVars, keyVars, storeVars, currentSession, recVars, now,
                   parseVars>>

\* updateAnalysis(analysis) inside analyzeWithGemini's try
UpdateAnalysis(analysis, writeOk) ==
    IF UpdateSuggestionsThrows(analysis)
    THEN UNCHANGED <<currentSession, history, storage>>
    ELSE LET updated == [currentSession EXCEPT !.analysis = Analysis(analysis)]
         IN  /\ currentSession' = updated
             /\ history' = SavedHistory(updated)
             /\ storage' = SavedStorage(updated, writeOk)

\* updateAnalysis or showResponse throws into analyzeWithGemini's catch
ResultHandlingThrows(analysis) ==
    \/ UpdateSuggestionsThrows(analysis)
    \/ SaveThrows([currentSession EXCEPT !.analysis = Analysis(analysis)])
    \/ ShowResponseThrows(analysis)

\* The catch of _makeApiRequest and the catch of analyzeTranscript hand the
\* error on: the fallback analysis in place of the error
RequestFailureSwallowed == [path |-> "fallback", analysis |-> FallbackAnalysis]

\* What analyzeTranscript gives its caller when fetch rejects or the response is
\* not OK: both catches rethrow, and _processResponse is never called
RequestFailure == [path |-> "failed", analysis |-> <<>>]

\* analyzeTranscript throws to its caller
Raised(outcome) == outcome.path \in {"raise", "failed"}

\* respondToMessage without its own continuation: the result of a typed
\* message goes to the analytics as well
HandsToAnalyticsAlways(req) == TRUE

\* The continuation after the await is analyzeWithGemini's, which hands the
\* result to the analytics and owns the flag; respondToMessage's shows it only
HandsToAnalytics(req) == req.caller = "voice"

\* The await of call i settles with `outcome`: the entry _processResponse added
\* to the context when it returned, then the rest of analyzeWithGemini or
\* respondToMessage, in the try or in the catch
Settle(i, outcome, writeOk) ==
    /\ i \in 1..Len(inflight)
    /\ inflight' = Remove(inflight, i)
    /\ result' = outcome
    /\ IF Raised(outcome)
       THEN /\ pendingAnalysis' = IF HandsToAnalytics(inflight[i])
                                  THEN FlagAfterFailure(pendingAnalysis)
                                  ELSE pendingAnalysis
            /\ UNCHANGED <<contextHistory, appended, currentSession, history, storage>>
       ELSE /\ contextHistory' = AddToHistory(contextHistory, "assistant",
                                     JsonStringify(outcome.analysis))
            /\ appended' = Append(appended,
                               Entry("assistant", JsonStringify(outcome.analysis)))
            /\ IF HandsToAnalytics(inflight[i])
               THEN /\ UpdateAnalysis(outcome.analysis, writeOk)
                    /\ pendingAnalysis' =
                          IF ResultHandlingThrows(outcome.analysis)
                          THEN FlagAfterFailure(pendingAnalysis) ELSE FALSE
               ELSE UNCHANGED <<pendingAnalysis, currentSession, history, storage>>
    /\ UNCHANGED <<activeScenario, isRecording, keyVars, historyIsArray, recVars, now>>

\* The collaborator fails call i: fetch rejects or the response is not OK
FailRequest(i) == Settle(i, RequestFailure, TRUE) /\ UNCHANGED response

\* The collaborator answers call i with `resp`: _processResponse, then the rest
\* of analyzeWithGemini or respondToMessage
DeliverResponse(i, resp, writeOk) ==
    /\ Settle(i, ProcessResponse(resp), writeOk)
    /\ response' = resp

\* clearHistory without removeItem: the blob stays
AnalyticsClearMemoryOnly ==
    /\ history' = <<>>
    /\ historyIsArray' = TRUE
    /\ UNCHANGED <<appVars, geminiVars, storage, currentSession, recVars, inflight, now,
                   parseVars>>

\* SpeechAnalytics.clearHistory()
AnalyticsClearHistory ==
    /\ history' = <<>>
    /\ historyIsArray' = TRUE
    /\ storage' = AbsentStorage
    /\ UNCHANGED <<appVars, geminiVars, currentSession, recVars, inflight, now, parseVars>>

\* The page is loaded again: every module is constructed anew and the history is
\* read back from storage; the calls in flight die with the old page
Reload ==
    /\ activeScenario' = "general"
    /\ isRecording' = FALSE
    /\ pendingAnalysis' = FALSE
    /\ isApiKeySet' = ConstructedKeySet
    /\ apiKey' = LoadedApiKey(storedKey)
    /\ storedKey' = storedKey
    /\ contextHistory' = <<>>
    /\ appended' = <<>>
    /\ history' = LoadedHistory(storage)
    /\ historyIsArray' = LoadedIsArray(storage)
    /\ currentSession' = ConstructedSession
    /\ recTranscript' = <<>>
    /\ recDuration' = 0
    /\ inflight' = <<>>
    /\ UNCHANGED <<storage, now, parseVars>>

\* Time passes
Tick ==
    /\ now' = now + 1
    /\ UNCHANGED <<appVars, geminiVars, storeVars, currentSession, recVars, inflight,
                   parseVars>>

\* One more user event, of at most max
Event(max) == nEvents < max /\ nEvents' = nEvents + 1

(***************************************************************************)
(* The application: every user event and every answer of the collaborator. *)
(***************************************************************************)
NoResponse == [hasText |-> FALSE, text |-> <<>>]
Text(text) == [hasText |-> TRUE, text |-> text]
NoResult == [path |-> "none", analysis |-> <<>>]

\* The answers of the collaborator in a run of the application: a valid object
\* in prose, prose alone, an object whose improvements is a string, no text
Responses ==
    { Text(<<"x", "{", "sc8", ",", "st1", ",", "im1", "}">>),
      Text(<<"x">>),
      Text(<<"{", "sc8", ",", "st1", ",", "imS", "}">>),
      Text(<<>>) }

Init ==
    /\ activeScenario = "general"
    /\ isRecording = FALSE
    /\ pendingAnalysis = FALSE
    /\ isApiKeySet = ConstructedKeySet
    /\ apiKey = LoadedApiKey(NoStoredKey)
    /\ storedKey = NoStoredKey
    /\ contextHistory = <<>>
    /\ appended = <<>>
    /\ history = <<>>
    /\ historyIsArray = TRUE
    /\ currentSession = ConstructedSession
    /\ storage = AbsentStorage
    /\ recTranscript = <<>>
    /\ recDuration = 0
    /\ inflight = <<>>
    /\ now = 0
    /\ response = NoResponse
    /\ result = NoResult
    /\ nEvents = 0

\* A step of the application within a budget of max user events
Run(max) ==
    \/ Event(max) /\ StartRecording
    \/ \E d \in Durations, writeOk \in WriteOutcomes :
          Event(max) /\ StopRecording(d, writeOk)
    \/ \E text \in Spoken, d \in Durations : Event(max) /\ TranscriptEvent(text, d)
    \/ \E scenario \in Scenarios : Event(max) /\ SelectScenario(scenario)
    \/ \E raw \in Typed : Event(max) /\ UserInput(raw)
    \/ \E i \in 1..Len(inflight), resp \in Responses, writeOk \in WriteOutcomes :
          DeliverResponse(i, resp, writeOk) /\ UNCHANGED nEvents
    \/ \E i \in 1..Len(inflight) : FailRequest(i) /\ UNCHANGED nEvents
    \/ Event(max) /\ AnalyticsClearHistory
    \/ Event(max) /\ Reload
    \/ Event(max) /\ Tick

Next == Run(MaxEvents)

Spec == Init /\ [][Next]_vars

(***************************************************************************)
(* The parser alone: _processResponse applied to one response.             *)
(***************************************************************************)
\* The objects of at most MaxMembers members, as the collaborator writes them
MemberLists == UNION {[1..k -> ResponseMembers] : k \in 0..MaxMembers}
ObjectTexts == {JsonStringify(members) : members \in MemberLists}

\* Spans that JSON.parse rejects, and texts without a span
BrokenSpans ==
    { <<"{", "x", "}">>, <<"{", "sc8", ",", "}">>, <<"{", ",", "sc8", "}">>,
      <<"{", "sc8", "st1", "im1", "}">>, <<"{", "{", "}">> }
SpanlessTexts == { <<>>, <<"x">>, <<"x", "x">>, <<"{">>, <<"}">>, <<"}", "x", "{">> }
Prefixes == { <<>>, <<"x">> }
Suffixes == { <<>>, <<"x">>, <<"x", "}">>, <<"{", "}">> }

ParserInputs ==
    {NoResponse}
      \cup {Text(text) : text \in SpanlessTexts}
      \cup {Text(pre \o body \o suf) :
               pre \in Prefixes, body \in ObjectTexts \cup BrokenSpans, suf \in Suffixes}

InitParser ==
    /\ activeScenario = "general"
    /\ isRecording = FALSE
    /\ pendingAnalysis = FALSE
    /\ isApiKeySet = ConstructedKeySet
    /\ apiKey = LoadedApiKey(NoStoredKey)
    /\ storedKey = NoStoredKey
    /\ contextHistory = <<>>
    /\ appended = <<>>
    /\ history = <<>>
    /\ historyIsArray = TRUE
    /\ currentSession = ConstructedSession
    /\ storage = AbsentStorage
    /\ recTranscript = <<>>
    /\ recDuration = 0
    /\ inflight = <<>>
    /\ now = 0
    /\ response \in ParserInputs
    /\ result = NoResult
    /\ nEvents = 0

\* _processResponse(response), with the entry it adds to the context
Parse ==
    /\ result = NoResult
    /\ result' = ProcessResponse(response)
    /\ IF ProcessResponse(response).path = "raise"
       THEN UNCHANGED <<contextHistory, appended>>
       ELSE /\ contextHistory' = AddToHistory(contextHistory, "assistant",
                                     JsonStringify(ProcessResponse(response).analysis))
            /\ appended' = Append(appended,
                               Entry("assistant",
                                     JsonStringify(ProcessResponse(response).analysis)))
    /\ UNCHANGED <<appVars, keyVars, storeVars, currentSession, recVars, inflight,
                   now, response, nEvents>>

NextParser == Parse

SpecParser == InitParser /\ [][NextParser]_vars

(***************************************************************************)
(* Claims about the parser, checked under SpecParser.                      *)
(***************************************************************************)
Parsed == result # NoResult
NonEmptyText == response.hasText /\ Len(response.text) > 0
Returned == result.path \in {"decoded", "fallback"}

\* C2 as stated: for every raw response text, the empty text included, the
\* parser returns an analysis value and never raises to its caller.
C2_NeverRaises == Parsed => Returned

\* C2 as amended: for every non-empty raw response text (text with no JSON
\* object, undecodable JSON and JSON missing fields included) the parser returns
\* an analysis value and does not raise.
C2_NonEmptyTextReturns == (Parsed /\ NonEmptyText) => Returned

\* An undecodable span in a non-empty text has been parsed and a value returned
C2_Witness ==
    /\ Parsed /\ NonEmptyText /\ Returned
    /\ HasJsonMatch(response.text)
    /\ ~JsonDecodable(JsonMatch(response.text))

\* A decodable object of a numeric overallScore in 1..10 and an improvements
\* sequence, and nothing else, wrapped in prose
C3_ScoreAndImprovements ==
    { <<"sc8", "im1">>, <<"im1", "sc8">>, <<"sc8", "im0">>, <<"im0", "sc8">> }
C3_Wrapped(members) ==
    \E pre \in {<<>>, <<"x">>}, suf \in {<<>>, <<"x">>} :
        response.text = pre \o JsonStringify(members) \o suf

\* C3: a text that wraps in prose a decodable object carrying only a numeric
\* overallScore in 1..10 and an improvements sequence is returned decoded, not
\* as the fallback; 'prefix {"overallScore":8,"improvements":["x"]} suffix'
\* yields overallScore = 8 and improvements = ["x"].
C3_ScoreAndImprovementsDecoded ==
    \A members \in C3_ScoreAndImprovements :
        (Parsed /\ response.hasText /\ C3_Wrapped(members)) =>
            /\ result.path = "decoded"
            /\ result.analysis = members
            /\ Get(result.analysis, "overallScore") = Num(8)

\* overallScore is a number in 1..10 and improvements is a sequence
C4_SchemaValid(analysis) ==
    /\ Get(analysis, "overallScore").t = "num"
    /\ Get(analysis, "overallScore").n \in 1..10
    /\ Get(analysis, "improvements").t = "arr"

\* C4: every value the parser returns, decoded or fallback, is schema-valid:
\* overallScore is a number in 1..10 and improvements is a sequence.
C4_ReturnedSchemaValid == Returned => C4_SchemaValid(result.analysis)

\* The three failure modes of a non-empty text: no span, a span that does not
\* decode, a decoded object without overallScore or without improvements
C5_FailureMode ==
    /\ NonEmptyText
    /\ \/ ~HasJsonMatch(response.text)
       \/ ~JsonDecodable(JsonMatch(response.text))
       \/ ~HasKey(JsonParse(JsonMatch(response.text)), "overallScore")
       \/ ~HasKey(JsonParse(JsonMatch(response.text)), "improvements")

\* The fields C5 names, but for corrections
C5_FixedFields ==
    /\ result.path = "fallback"
    /\ result.analysis = <<"sc7", "stF", "imF", "toF", "suF">>
    /\ Get(result.analysis, "overallScore") = Num(7)
    /\ Get(result.analysis, "toneFeedback") = Str("Professional and engaged")
    /\ Get(result.analysis, "improvements").t = "arr"
    /\ Len(Get(result.analysis, "improvements").a) = 1

\* C5 as stated: in each failure mode the parser returns the same fixed value:
\* overallScore = 7, toneFeedback = "Professional and engaged", exactly one
\* improvement entry and an empty corrections sequence.
C5_FallbackWithEmptyCorrections ==
    (Parsed /\ C5_FailureMode) =>
        /\ C5_FixedFields
        /\ Get(result.analysis, "corrections").t = "arr"
        /\ Len(Get(result.analysis, "corrections").a) = 0

\* C5 as amended: in each failure mode the parser returns the same fixed value,
\* whatever the text: overallScore = 7, toneFeedback = "Professional and
\* engaged", exactly one improvement entry, and no corrections field at all.
C5_FallbackWithoutCorrections ==
    (Parsed /\ C5_FailureMode) =>
        /\ C5_FixedFields
        /\ ~HasKey(result.analysis, "corrections")

\* A decoded object with a score and strengths but no improvements has been parsed
C5_Witness ==
    /\ Parsed /\ NonEmptyText
    /\ HasJsonMatch(response.text)
    /\ JsonDecodable(JsonMatch(response.text))
    /\ Truthy(Get(JsonParse(JsonMatch(response.text)), "overallScore"))
    /\ Truthy(Get(JsonParse(JsonMatch(response.text)), "strengths"))
    /\ ~HasKey(JsonParse(JsonMatch(response.text)), "improvements")
    /\ result.path = "fallback"

(***************************************************************************)
(* The conversation context under long runs: one utterance, one typed      *)
(* message and one answer, repeated past the capacity of the context.      *)
(***************************************************************************)
NextCtx ==
    \/ Event(MaxCtxEvents) /\ StartRecording
    \/ Event(MaxCtxEvents) /\ TranscriptEvent(<<"a">>, 11)
    \/ Event(MaxCtxEvents) /\ StopRecording(11, TRUE)
    \/ Event(MaxCtxEvents) /\ UserInput(<<"a", " ">>)
    \/ Event(MaxCtxEvents) /\ SelectScenario("interview")
    \/ \E i \in 1..Len(inflight) :
          DeliverResponse(i, Text(<<"x">>), TRUE) /\ UNCHANGED nEvents
    \/ \E i \in 1..Len(inflight) : FailRequest(i) /\ UNCHANGED nEvents

SpecCtx == Init /\ [][NextCtx]_vars

\* The last n entries of a sequence
C6_Last(seq, n) ==
    IF Len(seq) <= n THEN seq ELSE SubSeq(seq, Len(seq) - n + 1, Len(seq))

\* C6: after any sequence of addToHistory and clearHistory calls the context
\* holds at most 10 entries, and they are the most recent (up to 10) entries
\* appended since the last clear, oldest first.
C6_ContextIsLastTen ==
    /\ Len(contextHistory) <= 10
    /\ contextHistory = C6_Last(appended, 10)

\* More than 10 entries were appended since the last clear, the last by the parser
C6_Witness ==
    /\ Len(appended) > 10
    /\ appended[Len(appended)].role = "assistant"
    /\ appended[1] # appended[Len(appended) - 9]

(***************************************************************************)
(* The session store on a page that finds a history persisted by earlier   *)
(* visits: record i of it was saved i ticks before this page was loaded.   *)
(***************************************************************************)
EarlierRecord(i) ==
    [id |-> -i, date |-> -i, duration |-> 11, transcript |-> <<"a">>,
     metrics |-> Metrics(11), analysis |-> NullAnalysis]
EarlierHistory(k) == [i \in 1..k |-> EarlierRecord(i)]
EarlierLengths == {0, HistoryCapacity - 1, HistoryCapacity}

InitStore ==
    /\ activeScenario = "general"
    /\ isRecording = FALSE
    /\ pendingAnalysis = FALSE
    /\ isApiKeySet = ConstructedKeySet
    /\ apiKey = LoadedApiKey(NoStoredKey)
    /\ storedKey = NoStoredKey
    /\ contextHistory = <<>>
    /\ appended = <<>>
    /\ \E k \in EarlierLengths :
          /\ storage = IF k = 0 THEN AbsentStorage
                       ELSE [kind |-> "history",
                             records |-> StringifyHistory(EarlierHistory(k))]
          /\ history = EarlierHistory(k)
    /\ historyIsArray = TRUE
    /\ currentSession = ConstructedSession
    /\ recTranscript = <<>>
    /\ recDuration = 0
    /\ inflight = <<>>
    /\ now = 0
    /\ response = NoResponse
    /\ result = NoResult
    /\ nEvents = 0

NextStore ==
    \/ Event(MaxStoreEvents) /\ StartRecording
    \/ Event(MaxStoreEvents) /\ TranscriptEvent(<<"a">>, 5)
    \/ \E d \in {5, 11}, writeOk \in BOOLEAN :
          Event(MaxStoreEvents) /\ StopRecording(d, writeOk)
    \/ \E i \in 1..Len(inflight), writeOk \in BOOLEAN :
          DeliverResponse(i, Text(<<"x">>), writeOk) /\ UNCHANGED nEvents
    \/ \E i \in 1..Len(inflight) : FailRequest(i) /\ UNCHANGED nEvents
    \/ Event(MaxStoreEvents) /\ AnalyticsClearHistory
    \/ Event(MaxStoreEvents) /\ Reload
    \/ Event(MaxStoreEvents) /\ Tick

SpecStore == InitStore /\ [][NextStore]_vars

\* At most 20 records, none created after one nearer the head
C7_Bounded ==
    /\ Len(history) <= 20
    /\ \A i, j \in 1..Len(history) : i < j => history[i].id >= history[j].id

\* A step leaves the history alone, empties it, loads the persisted one, or puts
\* one record at the head of the old records, of which at most the 20th is lost
C7_Step ==
    \/ history' = history
    \/ history' = <<>>
    \/ storage.kind = "history" /\ history' = ParseHistory(storage.records)
    \/ /\ Len(history') = IF Len(history) < 20 THEN Len(history) + 1 ELSE 20
       /\ history'[1].id = now
       /\ \A i \in 2..Len(history') : history'[i] = history[i - 1]

\* C7: after any sequence of saves, loads and clears the history holds at most
\* 20 records, newest first; a save puts the new record at the head, keeps the
\* order of the records it found and on overflow drops only the last of them.
C7_HistoryBoundedNewestFirst == [](C7_Bounded) /\ [][C7_Step]_vars

\* A save on a full history: the new record leads, the oldest record is gone
C7_Witness ==
    /\ Len(history) = 20
    /\ history[1].id >= 0
    /\ history[2] = EarlierRecord(1)
    /\ history[20] = EarlierRecord(19)

(***************************************************************************)
(* Claims about the supervisor, checked under Spec and SpecLive.           *)
(***************************************************************************)
\* C1: in every interleaving of recording stops, typed messages and answers of
\* the collaborator, at most one analyzeTranscript request is outstanding.
C1_AtMostOneOutstanding == Len(inflight) <= 1

C8_Storable(record) == ~IsBlank(record.transcript) /\ record.duration > 5

\* C8: every record of the history, in memory and persisted, has a non-empty
\* transcript and a duration above 5 seconds: no save made while the session's
\* duration is <= 5 or its transcript is empty, on a final update or on the
\* arrival of an analysis, adds a record to either.
C8_RecordsNonEmptyAndLong ==
    /\ \A i \in 1..Len(history) : C8_Storable(history[i])
    /\ \A i \in 1..Len(storage.records) : C8_Storable(storage.records[i])

(***************************************************************************)
(* The microphone alone: recordings of 10 and 11 seconds, started and      *)
(* stopped while the analysis of an earlier recording is still awaited.    *)
(***************************************************************************)
NextVoice ==
    \/ Event(MaxVoiceEvents) /\ StartRecording
    \/ \E text \in Spoken, d \in {AnalyzeThreshold, AnalyzeThreshold + 1} :
          Event(MaxVoiceEvents) /\ TranscriptEvent(text, d)
    \/ \E d \in {AnalyzeThreshold, AnalyzeThreshold + 1} :
          Event(MaxVoiceEvents) /\ StopRecording(d, TRUE)
    \/ \E i \in 1..Len(inflight) :
          DeliverResponse(i, Text(<<"x">>), TRUE) /\ UNCHANGED nEvents
    \/ \E i \in 1..Len(inflight) : FailRequest(i) /\ UNCHANGED nEvents

SpecVoice == Init /\ [][NextVoice]_vars

\* The step of StopRecording: the microphone goes off and the session stays
C9_Stop == isRecording /\ ~isRecording' /\ currentSession'.startTime = currentSession.startTime
\* The step of a transcript event, which delivers a non-final update
C9_NonFinal == isRecording /\ isRecording' /\ recTranscript' # recTranscript
C9_NothingIssued == inflight' = inflight /\ pendingAnalysis' = pendingAnalysis

C9_Step ==
    /\ C9_Stop =>
          /\ inflight' # inflight =>
                /\ recDuration' > 10
                /\ ~pendingAnalysis
                /\ inflight' = Append(inflight, inflight'[Len(inflight')])
                /\ inflight'[Len(inflight')].caller = "voice"
          /\ (recDuration' <= 10 \/ pendingAnalysis) => C9_NothingIssued
    /\ C9_NonFinal => C9_NothingIssued

\* C9: when a recording stops a request is issued only if the duration exceeds
\* 10 seconds and no analysis is in flight; when the duration is <= 10, or an
\* analysis is in flight, or the update is not final, no request is issued and
\* the in-flight flag is left as it was.
C9_AnalysisOnlyWhenLongAndIdle == [][C9_Step]_vars

\* A second recording of more than 10 seconds, with speech, has stopped while
\* the request of the first is still the only one in flight
C9_Witness ==
    /\ ~isRecording /\ pendingAnalysis /\ recDuration > AnalyzeThreshold
    /\ ~IsBlank(recTranscript)
    /\ Len(inflight) = 1
    /\ inflight[1].caller = "voice"
    /\ inflight[1].transcript # recTranscript

\* The call of analyzeWithGemini settles: the collaborator answers or fails it
SettleVoice ==
    \E i \in 1..Len(inflight) :
       /\ inflight[i].caller = "voice"
       /\ \/ FailRequest(i) /\ UNCHANGED nEvents
          \/ \E resp \in Responses, writeOk \in WriteOutcomes :
                DeliverResponse(i, resp, writeOk) /\ UNCHANGED nEvents

NextLive == Run(MaxLiveEvents)

SpecLive == Init /\ [][NextLive]_vars /\ WF_vars(SettleVoice)

\* C10: if the collaborator eventually answers or fails, every state in which
\* an analysis is in flight is followed by one with the flag cleared, whether
\* the analysis succeeded, fell back or failed.
C10_FlagEventuallyCleared == pendingAnalysis ~> ~pendingAnalysis

\* After start, speech and stop alone, the parser raised and the flag is cleared
C10_Witness ==
    /\ nEvents = 3
    /\ Len(contextHistory) = 1
    /\ result.path = "raise"
    /\ inflight = <<>>
    /\ ~pendingAnalysis

(***************************************************************************)
(* Failures of the collaborator, checked under Spec.                       *)
(***************************************************************************)
C11_Fails == \E i \in 1..Len(inflight) : FailRequest(i)

C11_Step ==
    C11_Fails =>
       /\ result'.path = "failed"
       /\ contextHistory' = contextHistory
       /\ appended' = appended
       /\ currentSession' = currentSession
       /\ history' = history
       /\ storage' = storage

\* C11: a transport or HTTP failure of the collaborator makes analyzeTranscript
\* fail with an error to its caller: no analysis is returned or handed to the
\* analytics, and no entry is appended to the conversation context.
C11_TransportFailurePropagates == [][C11_Step]_vars

\* A request was sent and failed: the context holds the user entry alone
C11_Witness ==
    /\ result.path = "failed"
    /\ inflight = <<>>
    /\ Len(contextHistory) = 1
    /\ contextHistory[1].role = "user"

(***************************************************************************)
(* The record of a session whose analysis fails, checked under SpecVoice.  *)
(***************************************************************************)
\* The session of request req is in the history hist, without analysis
C12_Recorded(req, hist) ==
    \E k \in 1..Len(hist) :
       /\ hist[k].transcript = req.transcript
       /\ hist[k].metrics = req.metrics
       /\ hist[k].duration = req.metrics.duration
       /\ hist[k].analysis = NullAnalysis

C12_Step ==
    \A i \in 1..Len(inflight) :
       (FailRequest(i) /\ inflight[i].caller = "voice") =>
          /\ ~IsBlank(inflight[i].transcript)
          /\ inflight[i].metrics.duration > AnalyzeThreshold
          /\ C12_Recorded(inflight[i], history')

\* C12: when the analysis of a stopped session (non-empty transcript, duration
\* above 10) fails in the collaborator, the history after the failure contains
\* a record with that session's transcript and metrics and a null analysis.
C12_FailedSessionStillRecorded == [][C12_Step]_vars

(***************************************************************************)
(* The record of a session whose analysis completes, checked under         *)
(* SpecVoice.                                                              *)
(***************************************************************************)
\* Call i of analyzeWithGemini settles with a result, decoded or fallback
C13_Completes(i) ==
    /\ inflight[i].caller = "voice"
    /\ \E resp \in Responses, writeOk \in BOOLEAN : DeliverResponse(i, resp, writeOk)
    /\ ~Raised(result')

C13_Step ==
    \A i \in 1..Len(inflight) :
       C13_Completes(i) =>
          /\ Len(history') > 0
          /\ history'[1].transcript = inflight[i].transcript
          /\ history'[1].metrics = inflight[i].metrics
          /\ history'[1].analysis = Analysis(result'.analysis)
          /\ ~pendingAnalysis'

\* C13: when the analysis of a stopped session completes, with a decoded result
\* or the fallback, the head of the history afterwards is a record with that
\* session's transcript, that session's metrics and the returned analysis, and
\* the in-flight flag is cleared.
C13_CompletedSessionAtHead == [][C13_Step]_vars

(***************************************************************************)
(* Attempts with a blank transcript, checked under Spec.                   *)
(***************************************************************************)
\* Nothing is sent, and the context, the flag and the history stay as they were
C14_Untouched ==
    /\ inflight' = inflight
    /\ contextHistory' = contextHistory
    /\ appended' = appended
    /\ pendingAnalysis' = pendingAnalysis
    /\ history' = history
    /\ storage' = storage

C14_Step ==
    /\ \A d \in Durations, writeOk \in WriteOutcomes :
          (IsBlank(recTranscript) /\ StopRecording(d, writeOk)) => C14_Untouched
    /\ \A raw \in Typed : (IsBlank(raw) /\ UserInput(raw)) => C14_Untouched

\* C14: an analysis attempt whose transcript is empty or whitespace-only, made
\* by stopping a recording or by sending typed text, sends no request and
\* leaves the conversation context, the in-flight flag and the history unchanged.
C14_BlankTranscriptRejected == [][C14_Step]_vars

\* A recording of more than 10 seconds of whitespace has stopped
C14_Witness ==
    /\ ~isRecording
    /\ recDuration > AnalyzeThreshold
    /\ recTranscript # <<>>
    /\ IsBlank(recTranscript)
    /\ inflight = <<>>
    /\ contextHistory = <<>>
    /\ nEvents = 3

(***************************************************************************)
(* The credential, checked under Spec.                                     *)
(***************************************************************************)
\* No credential has been configured: the store holds no key
C15_NoCredential == ~storedKey.present

\* An attempt is made: a recording with speech stops after more than 10
\* seconds with no analysis in flight, or a non-blank message is sent
C15_Attempt ==
    \/ \E d \in Durations, writeOk \in WriteOutcomes :
          /\ d > AnalyzeThreshold /\ ~IsBlank(recTranscript) /\ ~pendingAnalysis
          /\ StopRecording(d, writeOk)
    \/ \E raw \in Typed : ~IsBlank(raw) /\ UserInput(raw)

C15_Sent ==
    /\ Len(inflight') = Len(inflight) + 1
    /\ inflight'[Len(inflight')].key = DefaultKey

C16_Settles(i) ==
    \/ FailRequest(i)
    \/ \E resp \in Responses, writeOk \in WriteOutcomes : DeliverResponse(i, resp, writeOk)

\* The context after one more entry: the entry is last, the entries before it
\* are the old ones in their order, of which only the oldest may be gone
C16_OneMore(old, new, entry) ==
    /\ Len(new) = IF Len(old) < ContextCapacity THEN Len(old) + 1 ELSE ContextCapacity
    /\ new[Len(new)] = entry
    /\ \A k \in 1..(Len(new) - 1) : new[k] = old[k + Len(old) + 1 - Len(new)]

C16_Step ==
    \A i \in 1..Len(inflight) :
       C16_Settles(i) =>
          IF result'.path \in {"decoded", "fallback"}
          THEN C16_OneMore(contextHistory, contextHistory',
                           Entry("assistant", JsonStringify(result'.analysis)))
          ELSE contextHistory' = contextHistory

\* C16: every analyzeTranscript call that returns a result, decoded or
\* fallback, appends exactly one entry with role assistant and the
\* serialization of the returned result as content, and nothing else; a call
\* that fails appends nothing.
C16_OneAssistantEntryPerResult == [][C16_Step]_vars

\* A decoded result was returned: its serialization follows the user's entry
C16_Witness ==
    /\ result.path = "decoded"
    /\ Len(contextHistory) = 2
    /\ contextHistory[1].role = "user"
    /\ contextHistory[2] = Entry("assistant", <<"{", "sc8", ",", "st1", ",", "im1", "}">>)

(***************************************************************************)
(* Successive saves: recordings of 6 seconds, each saved on its final      *)
(* update and none analysed, with the page reloaded in between.  A         *)
(* recording takes seconds, so the clock advances between two saves.       *)
(***************************************************************************)
NextSaves ==
    \/ /\ IF history = <<>> THEN TRUE ELSE history[1].id < now
       /\ Event(4 * MaxSaves + 2) /\ StartRecording
    \/ /\ recTranscript = <<>>
       /\ Event(4 * MaxSaves + 2) /\ TranscriptEvent(<<"a">>, SaveThreshold + 1)
    \/ Event(4 * MaxSaves + 2) /\ StopRecording(SaveThreshold + 1, TRUE)
    \/ /\ ~isRecording /\ history # <<>> /\ history[1].id = now /\ now + 1 < MaxSaves
       /\ Event(4 * MaxSaves + 2) /\ Tick
    \/ Event(4 * MaxSaves + 2) /\ Reload

SpecSaves == Init /\ [][NextSaves]_vars

\* The records are the most recent ones, newest first: the n-th save has id n - 1
C17_MostRecent ==
    \A i \in 1..Len(history) : history[i].id = history[1].id - (i - 1)

C17_Saves == IF history = <<>> THEN 0 ELSE history[1].id + 1

\* C17: persisting the history and loading it back yields the same sequence in
\* the same order: the empty history loads as the empty history, and after n
\* successive saves (n up to 25 and more) a load yields the most recent
\* min(n, 20) records, newest first.
C17_PersistLoadRoundTrip ==
    /\ LoadedHistory(storage) = history
    /\ C17_MostRecent
    /\ Len(history) = IF C17_Saves < HistoryCapacity THEN C17_Saves ELSE HistoryCapacity

\* 25 saves were made and the page was loaded again: records 25 down to 6
C17_Witness ==
    /\ currentSession = ConstructedSession
    /\ recTranscript = <<>>
    /\ Len(history) = 20
    /\ history[1].id = 24
    /\ history[20].id = 5
    /\ history = LoadedHistory(storage)

(***************************************************************************)
(* A page that finds a blob it did not write: no blob, text that JSON.parse *)
(* rejects, or JSON that is no array (null, a number, an object).          *)
(***************************************************************************)
FoundBlobs ==
    { AbsentStorage,
      [kind |-> "garbage", records |-> <<>>],
      [kind |-> "nonarray", records |-> <<>>] }

InitCorrupt ==
    /\ activeScenario = "general"
    /\ isRecording = FALSE
    /\ pendingAnalysis = FALSE
    /\ isApiKeySet = ConstructedKeySet
    /\ apiKey = LoadedApiKey(NoStoredKey)
    /\ storedKey = NoStoredKey
    /\ contextHistory = <<>>
    /\ appended = <<>>
    /\ storage \in FoundBlobs
    /\ history = LoadedHistory(storage)
    /\ historyIsArray = LoadedIsArray(storage)
    /\ currentSession = ConstructedSession
    /\ recTranscript = <<>>
    /\ recDuration = 0
    /\ inflight = <<>>
    /\ now = 0
    /\ response = NoResponse
    /\ result = NoResult
    /\ nEvents = 0

SpecCorrupt == InitCorrupt /\ [][NextStore]_vars

\* A final update that has to save: the session has speech and lasted over 5 s
C18_Saves ==
    /\ ~IsBlank(currentSession.transcript)
    /\ \E d \in {SaveThreshold, AnalyzeThreshold + 1}, writeOk \in BOOLEAN :
          d > SaveThreshold /\ StopRecording(d, writeOk)

C18_Step ==
    /\ Reload => (historyIsArray' /\ (storage.kind # "history" => history' = <<>>))
    /\ C18_Saves =>
          /\ Len(history') = Len(history) + 1
          /\ history'[1].transcript = currentSession.transcript

\* C18: loading the history never fails and, whenever the blob is absent or
\* corrupt (not decodable, or decodable but no sequence of records), leaves the
\* in-memory history an empty sequence, on which later saves still work.
C18_CorruptBlobLoadsEmpty == [](historyIsArray /\ Len(history) <= HistoryCapacity) /\ [][C18_Step]_vars

(***************************************************************************)
(* Clearing the history, checked under Spec.                               *)
(***************************************************************************)
\* What a handler or a load can see: both empty or both non-empty
C19_Agree == (history = <<>>) <=> (LoadedHistory(storage) = <<>>)

C19_Step ==
    /\ AnalyticsClearHistory =>
          /\ history' = <<>>
          /\ storage' = AbsentStorage
          /\ LoadedHistory(storage') = <<>>
    /\ (Reload /\ storage = AbsentStorage) => history' = <<>>

C20_IdsDistinct ==
    \A i, j \in 1..Len(history) : i # j => history[i].id # history[j].id

(***************************************************************************)
(* The two analysis paths on one response: _processResponse of the speech  *)
(* analysis and getTextAnalysis of the typed-text analysis.                *)
(***************************************************************************)
\* getTextAnalysis from the response on: what it returns or that it throws
GetTextAnalysis(resp) ==
    IF NoTextContent(resp)
    THEN [path |-> "raise", analysis |-> <<>>]
    ELSE IF ~HasJsonMatch(resp.text)
         THEN [path |-> "raise", analysis |-> <<>>]
         ELSE IF JsonDecodable(JsonMatch(resp.text))
              THEN [path |-> "decoded", analysis |-> JsonParse(JsonMatch(resp.text))]
              ELSE [path |-> "raise", analysis |-> <<>>]

\* analyzeText after its await: the analysis is displayed, or the catch shows
\* the error to the user; the context and the store are not touched
ParseText ==
    /\ result = NoResult
    /\ result' = GetTextAnalysis(response)
    /\ UNCHANGED <<appVars, geminiVars, storeVars, currentSession, recVars, inflight,
                   now, response, nEvents>>

NextPaths == Parse \/ ParseText

SpecPaths == InitParser /\ [][NextPaths]_vars

\* C21: on every analysis path, speech and typed text, a malformed response
\* (no JSON object in the text, undecodable JSON, or missing fields) is never
\* surfaced as an error; it is absorbed into a fallback result.
C21_MalformedAbsorbedOnEveryPath == (Parsed /\ C5_FailureMode) => result.path = "fallback"

(***************************************************************************)
(* The payload of a request, checked under Spec.                           *)
(***************************************************************************)
\* C22: the payload of an analysis request includes the conversation context
\* the call found: two calls with the same transcript, metrics and scenario
\* but different context contents send different payloads.
C22_PayloadCarriesContext ==
    \A i, j \in 1..Len(inflight) :
       (/\ inflight[i].transcript = inflight[j].transcript
        /\ inflight[i].metrics = inflight[j].metrics
        /\ inflight[i].context = inflight[j].context
        /\ inflight[i].seen # inflight[j].seen)
          => Payload(inflight[i]) # Payload(inflight[j])

(***************************************************************************)
(* MetricsEngine.compute.  The recogniser's source (js/speech-recognition.js)*)
(* is not part of the tree, so the computation follows the specification's *)
(* section 4.1.  A transcript is the sequence of its whitespace-delimited  *)
(* fields, "" being the field between two adjacent whitespace characters;  *)
(* a number is an exact fraction in lowest terms.                          *)
(***************************************************************************)
MaxFields == 3

\* The fields transcripts are drawn from: fillers in both cases, a word that
\* starts like a filler, a word with and without punctuation, the empty field
Vocabulary == {"", "um", "Um", "uh", "like", "umbrella", "test", "test."}

\* elapsedSeconds: before the clock started, at its start, and running
ElapsedSeconds == {-1, 0, 10, 60}

\* The transcript of the specification's worked example, "um like this is a test um"
ExampleTranscript == <<"um", "like", "this", "is", "a", "test", "um">>

Transcripts ==
    UNION {[1..k -> Vocabulary] : k \in 0..MaxFields} \cup {ExampleTranscript}

RECURSIVE Gcd(_, _)
Gcd(a, b) == IF b = 0 THEN a ELSE Gcd(b, a % b)

Zero == [num |-> 0, den |-> 1]
Ratio(n, d) == [num |-> n \div Gcd(n, d), den |-> d \div Gcd(n, d)]

\* lower-casing and punctuation stripping of a token
Lower(w) == IF w = "Um" THEN "um" ELSE w
StripPunctuation(w) == IF w = "test." THEN "test" ELSE w

\* the fixed filler-word vocabulary ("you know" is never a single token)
FillerWords == {"um", "uh", "like"}

\* whitespace-delimited tokens with empty tokens excluded
Words(transcript) == SelectSeq(transcript, LAMBDA w : w # "")

WordCount(transcript) == Len(Words(transcript))

FillerWordCountCaseSensitive(transcript) ==
    Len(SelectSeq(Words(transcript), LAMBDA w : w \in FillerWords))

\* case-insensitive exact-token matches against the filler vocabulary
FillerWordCount(transcript) ==
    Len(SelectSeq(Words(transcript), LAMBDA w : Lower(w) \in FillerWords))

WpmUnguarded(wordCount, elapsedSeconds) ==
    IF elapsedSeconds <= 0 THEN Ratio(wordCount * 60, 1)
    ELSE Ratio(wordCount * 60, elapsedSeconds)

\* wordCount / (elapsedSeconds / 60), and 0 when elapsedSeconds <= 0
Wpm(wordCount, elapsedSeconds) ==
    IF elapsedSeconds <= 0 THEN Zero ELSE Ratio(wordCount * 60, elapsedSeconds)

UniqueWords(transcript) ==
    {StripPunctuation(Lower(Words(transcript)[i])) : i \in 1..WordCount(transcript)}

\* unique / total over lower-cased, punctuation-stripped tokens; 0 for no words
VocabularyDiversity(transcript) ==
    IF WordCount(transcript) = 0 THEN Zero
    ELSE Ratio(Cardinality(UniqueWords(transcript)), WordCount(transcript))

\* compute(transcript, elapsedSeconds): the SpeechMetrics snapshot
Compute(transcript, elapsedSeconds) ==
    [has |-> TRUE,
     wpm |-> Wpm(WordCount(transcript), elapsedSeconds),
     fillerWordCount |-> FillerWordCount(transcript),
     vocabularyDiversity |-> VocabularyDiversity(transcript),
     wordCount |-> WordCount(transcript),
     duration |-> elapsedSeconds]

InitMetrics ==
    /\ activeScenario = "general"
    /\ isRecording = TRUE
    /\ pendingAnalysis = FALSE
    /\ isApiKeySet = ConstructedKeySet
    /\ apiKey = LoadedApiKey(NoStoredKey)
    /\ storedKey = NoStoredKey
    /\ contextHistory = <<>>
    /\ appended = <<>>
    /\ history = <<>>
    /\ historyIsArray = TRUE
    /\ currentSession = StartSession(<<>>, 0)
    /\ storage = AbsentStorage
    /\ recTranscript \in Transcripts
    /\ recDuration \in ElapsedSeconds
    /\ inflight = <<>>
    /\ now = 0
    /\ response = NoResponse
    /\ result = NoResult
    /\ nEvents = 0

\* The snapshot of an interim transcript event, as updateMetrics(metrics, false)
\* stores it in the current session
ComputeMetrics ==
    /\ currentSession.metrics = NoMetrics
    /\ currentSession' =
          [currentSession EXCEPT !.metrics = Compute(recTranscript, recDuration)]
    /\ UNCHANGED <<appVars, geminiVars, storeVars, recVars, parseVars, inflight, now,
                   nEvents>>

NextMetrics == ComputeMetrics

SpecMetrics == InitMetrics /\ [][NextMetrics]_vars

C23_Computed == currentSession.metrics.has

\* the tokens of the filler vocabulary in every case the transcripts use
C23_Fillers == {"um", "Um", "uh", "like"}

C23_Rule ==
    /\ currentSession.metrics.wordCount =
          Cardinality({i \in DOMAIN recTranscript : recTranscript[i] # ""})
    /\ currentSession.metrics.fillerWordCount =
          Cardinality({i \in DOMAIN recTranscript : recTranscript[i] \in C23_Fillers})
    /\ recDuration > 0 =>
          currentSession.metrics.wpm.num * recDuration =
             currentSession.metrics.wordCount * 60 * currentSession.metrics.wpm.den

C23_Example == recTranscript = ExampleTranscript /\ recDuration = 10

C24_Unique ==
    Cardinality({StripPunctuation(Lower(recTranscript[i])) :
                    i \in {j \in DOMAIN recTranscript : recTranscript[j] # ""}})

\* C24: for every transcript and elapsed time vocabularyDiversity equals
\* uniqueWordCount / totalWordCount and lies in [0,1], it is 0 when the
\* transcript has no words, and wpm is 0 whenever elapsedSeconds <= 0.
C24_DiversityAndPaceDefined ==
    C23_Computed =>
       /\ currentSession.metrics.vocabularyDiversity.den > 0
       /\ currentSession.metrics.vocabularyDiversity.num >= 0
       /\ currentSession.metrics.vocabularyDiversity.num
             <= currentSession.metrics.vocabularyDiversity.den
       /\ currentSession.metrics.vocabularyDiversity.num * currentSession.metrics.wordCount
             = C24_Unique * currentSession.metrics.vocabularyDiversity.den
       /\ currentSession.metrics.wordCount = 0 =>
             currentSession.metrics.vocabularyDiversity = Zero
       /\ recDuration <= 0 => currentSession.metrics.wpm = Zero

C24_Witness ==
    /\ C23_Computed
    /\ recDuration <= 0
    /\ currentSession.metrics.wordCount > 0
    /\ currentSession.metrics.vocabularyDiversity.num
          < currentSession.metrics.vocabularyDiversity.den

(***************************************************************************)
(* The span the parser decodes, checked under SpecParser.                  *)
(***************************************************************************)
\* the brace-matched span that starts at the first "{" of the text
C25_FirstClose(text) ==
    Min({i \in Positions(text, "}") : i > Min(Positions(text, "{"))})

C25_FirstSpan(text) == SubSeq(text, Min(Positions(text, "{")), C25_FirstClose(text))

\* a decodable, schema-valid object with every required field, followed by
\* text that holds another "}"
C25_ObjectThenBrace ==
    /\ NonEmptyText
    /\ HasJsonMatch(response.text)
    /\ JsonDecodable(C25_FirstSpan(response.text))
    /\ Validate(JsonParse(C25_FirstSpan(response.text)))
    /\ C4_SchemaValid(JsonParse(C25_FirstSpan(response.text)))
    /\ C25_FirstClose(response.text) < Max(Positions(response.text, "}"))

\* C25: the parser decodes the brace-matched span that starts at the first
\* "{": when a decodable, schema-valid object is followed by further text
\* that contains a "}", the parser returns the decoded first object and not
\* the fallback.
C25_FirstObjectDecoded ==
    (Parsed /\ C25_ObjectThenBrace) =>
       /\ result.path = "decoded"
       /\ result.analysis = JsonParse(C25_FirstSpan(response.text))

(***************************************************************************)
(* The lifecycle of a recording, checked under Spec.                       *)
(***************************************************************************)
\* C26: a new recording (toggleRecording's start, which calls startSession)
\* begins only from Idle: never while an analysis is in flight
\* (pendingAnalysis = true).
C26_StartOnlyFromIdle == [][StartRecording => ~pendingAnalysis]_vars

C27_Step ==
    StartRecording =>
       /\ currentSession'.transcript = <<>>
       /\ currentSession'.metrics = NoMetrics
       /\ currentSession'.analysis = NullAnalysis
       /\ history' = history
       /\ storage' = storage
       /\ contextHistory' = contextHistory

\* C27: starting a recording opens a fresh session: right after the start the
\* current session has an empty transcript, empty metrics and a null analysis
\* whatever the session before left, and the history, the persisted blob and
\* the conversation context are unchanged.
C27_StartOpensFreshSession == [][C27_Step]_vars

\* A recording started after a session that was recorded, saved and analysed
C27_Witness ==
    /\ isRecording
    /\ currentSession.transcript = <<>>
    /\ currentSession.metrics = NoMetrics
    /\ currentSession.analysis = NullAnalysis
    /\ history # <<>>
    /\ history[1].analysis # NullAnalysis
    /\ storage # AbsentStorage
    /\ contextHistory # <<>>

C28_UserEvent ==
    \/ \E d \in Durations, writeOk \in WriteOutcomes : StopRecording(d, writeOk)
    \/ \E raw \in Typed : UserInput(raw)

C28_Step ==
    /\ \A i \in 1..Len(inflight) :
          FailRequest(i) =>
             /\ Len(inflight') = Len(inflight) - 1
             /\ \A k \in 1..Len(inflight') :
                   inflight'[k] = inflight[IF k < i THEN k ELSE k + 1]
             /\ inflight[i].caller = "voice" => ~pendingAnalysis'
    /\ Len(inflight') > Len(inflight) => C28_UserEvent

\* C28: after a failure of the collaborator no request is issued again for that
\* session unless a new user event (another stop or a typed message) occurs:
\* the failure leaves one call fewer in flight and clears the flag, and
\* every request that is issued is issued by a stop or a typed message.
C28_NoAutomaticRetry == [][C28_Step]_vars

\* The analysis of a stopped session has failed: nothing in flight, flag cleared
C28_Witness ==
    /\ result.path = "failed"
    /\ ~isRecording
    /\ currentSession.metrics.duration > AnalyzeThreshold
    /\ inflight = <<>>
    /\ ~pendingAnalysis

(***************************************************************************)
(* The records of the history, checked from a history of 0, 19 or 20       *)
(* records with writes that succeed.                                       *)
(***************************************************************************)
NextRecords ==
    \/ Event(MaxStoreEvents) /\ StartRecording
    \/ Event(MaxStoreEvents) /\ TranscriptEvent(<<"a">>, 5)
    \/ \E d \in {5, 11} : Event(MaxStoreEvents) /\ StopRecording(d, TRUE)
    \/ \E i \in 1..Len(inflight) :
          DeliverResponse(i, Text(<<"x">>), TRUE) /\ UNCHANGED nEvents
    \/ \E i \in 1..Len(inflight) : FailRequest(i) /\ UNCHANGED nEvents
    \/ Event(MaxStoreEvents) /\ AnalyticsClearHistory
    \/ Event(MaxStoreEvents) /\ Reload
    \/ Event(MaxStoreEvents) /\ Tick

SpecRecords == InitStore /\ [][NextRecords]_vars

C29_Prefix(p, h) == Len(p) <= Len(h) /\ p = SubSeq(h, 1, Len(p))

C29_Step ==
    \/ C29_Prefix(history', history)
    \/ /\ Len(history') =
             IF Len(history) < HistoryCapacity THEN Len(history) + 1 ELSE HistoryCapacity
       /\ C29_Prefix(Tail(history'), history)

C30_RecordedAtStop(i) ==
    /\ ~isRecording
    /\ inflight[i].metrics.duration > AnalyzeThreshold
    /\ currentSession.transcript = inflight[i].transcript
    /\ currentSession.metrics = inflight[i].metrics
    /\ currentSession.analysis = NullAnalysis
    /\ history # <<>>
    /\ Len(history) < HistoryCapacity
    /\ history[1] = SessionRecord(currentSession, history[1].id)

C30_Step ==
    \A i \in 1..Len(inflight) :
       (C13_Completes(i) /\ C30_RecordedAtStop(i)) => Len(history') = Len(history)

\* C30: one recording session contributes at most one record: for a session
\* stopped with a duration above 10 and then analysed, the final metrics update
\* and the arrival of the analysis together add a single record, so the
\* arrival adds no second record with the same transcript.
C30_OneRecordPerSession == [][C30_Step]_vars

(***************************************************************************)
(* The session an analysis is recorded with, checked under SpecVoice.      *)
(***************************************************************************)
C31_Step ==
    \A i \in 1..Len(inflight) :
       (C13_Completes(i) /\ history' # history /\ history'[1].analysis # NullAnalysis) =>
          /\ history'[1].transcript = inflight[i].transcript
          /\ history'[1].metrics = inflight[i].metrics

\* C31: every record with a non-null analysis pairs that analysis with the
\* transcript and metrics of the session that was sent for analysis, in every
\* interleaving, also when a new recording starts while the analysis of the
\* session before is still in flight.
C31_AnalysisPairedWithItsSession == [][C31_Step]_vars

(***************************************************************************)
(* The in-flight flag, checked under Spec.                                 *)
(***************************************************************************)
C32_VoiceOutstanding == \E i \in 1..Len(inflight) : inflight[i].caller = "voice"

\* C32: in every reachable state pendingAnalysis is true exactly when a call of
\* analyzeTranscript started by analyzeWithGemini has not yet settled: never
\* true with no such call outstanding, never false while one is outstanding.
C32_FlagIffVoiceOutstanding == pendingAnalysis <=> C32_VoiceOutstanding

\* The analysis of a session has failed while a typed message is still awaited
C32_Witness ==
    /\ result.path = "failed"
    /\ ~pendingAnalysis
    /\ Len(inflight) = 1
    /\ inflight[1].caller = "typed"
    /\ history # <<>>

(***************************************************************************)
(* The session stopped while an analysis is in flight, checked under       *)
(* SpecVoice.                                                              *)
(***************************************************************************)
\* A recording of more than 10 seconds, with speech, stops while an analysis is
\* in flight
C33_StopWhilePending ==
    /\ C9_Stop
    /\ pendingAnalysis
    /\ recDuration' > AnalyzeThreshold
    /\ ~IsBlank(recTranscript)

C33_Settles ==
    \E i \in 1..Len(inflight) :
       \/ FailRequest(i)
       \/ \E resp \in Responses \cup {Text(<<"x">>)} : DeliverResponse(i, resp, TRUE)

C33_Step ==
    /\ C33_StopWhilePending =>
          /\ inflight' = inflight
          /\ Len(history') > 0
          /\ history'[1].transcript = recTranscript
          /\ history'[1].analysis = NullAnalysis
    /\ C33_Settles =>
          /\ Len(inflight') < Len(inflight)
          /\ \A k \in 1..Len(inflight') : \E j \in 1..Len(inflight) : inflight'[k] = inflight[j]
          /\ Len(history) < HistoryCapacity =>
                \A k \in 1..Len(history) :
                   history[k].analysis = NullAnalysis =>
                      \E j \in k..Len(history') : history'[j] = history[k]

C34_Count(ctx, k, role) == Cardinality({j \in 1..k : ctx[j].role = role})

\* C34: in the conversation context every assistant entry is preceded by the
\* user entry of the request it answers, in every interleaving with scenario
\* switches and other requests, as long as the capacity bound has evicted
\* nothing: up to every assistant entry there are at least as many user
\* entries as assistant entries.
C34_AssistantAfterItsUser ==
    Len(contextHistory) < ContextCapacity =>
       \A k \in 1..Len(contextHistory) :
          contextHistory[k].role = "assistant" =>
             C34_Count(contextHistory, k, "assistant") <= C34_Count(contextHistory, k, "user")

(***************************************************************************)
(* Memory and storage after a save or a clear, checked under SpecStore,    *)
(* where a write may fail.                                                 *)
(***************************************************************************)
C35_Step ==
    (history' # history \/ storage' # storage) => LoadedHistory(storage') = history'

\* C35: after every save and every clear the persisted blob decodes to exactly
\* the in-memory history, same records in the same order, also when the
\* storage write fails: a failure leaves memory and storage with the same
\* history.
C35_MemoryAndStorageAgree == [][C35_Step]_vars

(***************************************************************************)
(* The credential, checked under SpecKey: pages loaded with no stored key  *)
(* or with any stored key, setApiKey and loadApiKey called with every key. *)
(***************************************************************************)
Keys == {<<>>, <<" ">>, <<"k">>, <<"j">>}
StoredKey(key) == [present |-> TRUE, key |-> key]
StoredKeys == {NoStoredKey} \cup {StoredKey(key) : key \in Keys}

\* What setApiKey or loadApiKey returned, or that setItem threw out of it
KeyResult(returned) == [path |-> IF returned THEN "true" ELSE "false", analysis |-> <<>>]
KeyThrew == [path |-> "raise", analysis |-> <<>>]

\* setApiKey(key)
SetApiKey(key, writeOk) ==
    /\ IF KeyAccepted(key)
       THEN /\ apiKey' = key
            /\ isApiKeySet' = TRUE
            /\ storedKey' = IF writeOk THEN StoredKey(key) ELSE storedKey
            /\ result' = IF writeOk THEN KeyResult(TRUE) ELSE KeyThrew
       ELSE /\ UNCHANGED keyVars
            /\ result' = KeyResult(FALSE)
    /\ UNCHANGED <<appVars, contextHistory, appended, storeVars, currentSession, recVars,
                   inflight, now, response>>

\* loadApiKey()
LoadApiKey(writeOk) ==
    IF storedKey.present /\ Len(storedKey.key) > 0
    THEN SetApiKey(storedKey.key, writeOk)
    ELSE /\ result' = KeyResult(FALSE)
         /\ UNCHANGED <<appVars, geminiVars, storeVars, currentSession, recVars,
                        inflight, now, response>>

InitKey ==
    /\ activeScenario = "general"
    /\ isRecording = FALSE
    /\ pendingAnalysis = FALSE
    /\ isApiKeySet = ConstructedKeySet
    /\ storedKey \in StoredKeys
    /\ apiKey = LoadedApiKey(storedKey)
    /\ contextHistory = <<>>
    /\ appended = <<>>
    /\ history = <<>>
    /\ historyIsArray = TRUE
    /\ currentSession = ConstructedSession
    /\ storage = AbsentStorage
    /\ recTranscript = <<>>
    /\ recDuration = 0
    /\ inflight = <<>>
    /\ now = 0
    /\ response = NoResponse
    /\ result = NoResult
    /\ nEvents = 0

NextKey ==
    \/ \E key \in Keys, writeOk \in BOOLEAN : Event(MaxKeyEvents) /\ SetApiKey(key, writeOk)
    \/ \E writeOk \in BOOLEAN : Event(MaxKeyEvents) /\ LoadApiKey(writeOk)
    \/ \E raw \in Typed : Event(MaxKeyEvents) /\ UserInput(raw)
    \/ \E i \in 1..Len(inflight) :
          DeliverResponse(i, Text(<<"x">>), TRUE) /\ UNCHANGED nEvents
    \/ \E i \in 1..Len(inflight) : FailRequest(i) /\ UNCHANGED nEvents
    \/ Event(MaxKeyEvents) /\ Reload

SpecKey == InitKey /\ [][NextKey]_vars

C36_KeyUnchanged ==
    apiKey' = apiKey /\ isApiKeySet' = isApiKeySet /\ storedKey' = storedKey

C36_Step ==
    /\ \A key \in Keys, writeOk \in BOOLEAN :
          (SetApiKey(key, writeOk) /\ IsBlank(key)) =>
             C36_KeyUnchanged /\ result'.path = "false"
    /\ \A writeOk \in BOOLEAN :
          (LoadApiKey(writeOk) /\ ~storedKey.present) =>
             C36_KeyUnchanged /\ result'.path = "false"

\* C36: a credential is configured in every reachable state: isApiKeySet starts
\* true and no operation clears it; setApiKey with an empty or whitespace-only
\* key returns false and leaves the key, the flag and the persisted key
\* unchanged, and loadApiKey with no stored key returns false and changes
\* nothing.
C36_CredentialAlwaysConfigured == [](isApiKeySet) /\ [][C36_Step]_vars

\* A key was set and stored, and a later setApiKey with a blank key was refused
C36_Witness ==
    /\ result.path = "false"
    /\ isApiKeySet
    /\ apiKey = <<"k">>
    /\ storedKey = StoredKey(<<"k">>)
    /\ nEvents >= 2

(***************************************************************************)
(* The effects of a typed message, checked under Spec.                     *)
(***************************************************************************)
\* The await of the typed message's call i settles: an answer or a failure
C37_TypedSettles(i) ==
    /\ inflight[i].caller = "typed"
    /\ \/ FailRequest(i)
       \/ \E resp \in Responses, writeOk \in WriteOutcomes : DeliverResponse(i, resp, writeOk)

C37_Frame ==
    /\ history' = history
    /\ historyIsArray' = historyIsArray
    /\ storage' = storage
    /\ currentSession' = currentSession
    /\ pendingAnalysis' = pendingAnalysis
    /\ isRecording' = isRecording
    /\ activeScenario' = activeScenario

\* The context is as it was, or holds one more entry of the role, at its end
C37_Entry(role) ==
    \/ contextHistory' = contextHistory
    \/ /\ Len(contextHistory') > 0
       /\ contextHistory'[Len(contextHistory')].role = role
       /\ contextHistory' =
             IF Len(contextHistory) < ContextCapacity
             THEN Append(contextHistory, contextHistory'[Len(contextHistory')])
             ELSE Append(Tail(contextHistory), contextHistory'[Len(contextHistory')])

C37_Step ==
    /\ \A raw \in Typed : UserInput(raw) => (C37_Frame /\ C37_Entry("user"))
    /\ \A i \in 1..Len(inflight) : C37_TypedSettles(i) => (C37_Frame /\ C37_Entry("assistant"))

\* C37: the analysis of a typed message (sendUserMessage, respondToMessage)
\* never changes the history, the persisted blob, the current session or the
\* in-flight flag, whether it succeeds or fails; its only effects on the state
\* are the user entry and the assistant entry appended to the context.
C37_TypedMessageTouchesContextOnly == [][C37_Step]_vars

\* A session of 10 seconds was recorded and stored without analysis, then a
\* typed message was sent and answered: the record and the session are as the
\* stop left them and the context holds the two entries
C37_Witness ==
    /\ ~isRecording
    /\ ~pendingAnalysis
    /\ inflight = <<>>
    /\ Returned
    /\ Len(history) = 1
    /\ history[1].analysis = NullAnalysis
    /\ currentSession.analysis = NullAnalysis
    /\ ~IsBlank(currentSession.transcript)
    /\ Len(contextHistory) = 2
    /\ contextHistory[1].role = "user"
    /\ contextHistory[2].role = "assistant"

====
